---- MODULE Spec2Model ----
(***************************************************************************)
(* Two-factor authentication for high-risk commands: the request lifecycle *)
(* manager (TwoFactorAuthManager), its deadline timers and waiters, and    *)
(* the gateway handlers 2fa.verify / 2fa.status / 2fa.cancel.              *)
(*                                                                         *)
(* Time is Date.now() in milliseconds.  One waitForVerification call owns  *)
(* one promise (its resolve callback) and one setTimeout handle; both are  *)
(* identified by the index of the call in `calls`.  JavaScript runs every  *)
(* method and every timer callback to completion, so each is one action.   *)
(***************************************************************************)
EXTENDS Integers, Sequences, FiniteSets, TLC

\* ------------------------------------------------------------ bounds
MaxRequests == 2
MaxWaits == 2
MaxTicks == 2
TickMs == 1000

MaxTime == MaxTicks * TickMs

\* the longest configured code length of the code-generator specification
MaxCodeLength == 3

\* ------------------------------------------------- optional values
None == <<>>
Some(v) == <<v>>
IsNone(o) == o = <<>>
Get(o) == o[1]

\* ----------------------------------------------------- program constants
DEFAULT_CODE_LENGTH == 6
DEFAULT_TIMEOUT_SECONDS == 300

\* ------------------------------------------------------------ strings
\* A code is a sequence of one-character strings.
WhiteSpace == {" ", "\t"}

ToUpperChar(c) ==
  CASE c = "a" -> "A"
    [] c = "b" -> "B"
    [] c = "c" -> "C"
    [] OTHER -> c

ToUpperCase(s) == [i \in 1..Len(s) |-> ToUpperChar(s[i])]

RECURSIVE TrimStart(_)
TrimStart(s) ==
  IF s # <<>> /\ Head(s) \in WhiteSpace THEN TrimStart(Tail(s)) ELSE s

RECURSIVE TrimEnd(_)
TrimEnd(s) ==
  IF s # <<>> /\ s[Len(s)] \in WhiteSpace
    THEN TrimEnd(SubSeq(s, 1, Len(s) - 1))
    ELSE s

Trim(s) == TrimEnd(TrimStart(s))

NormalizeCode_NoTrim(s) == ToUpperCase(s)

\* verify: code.trim().toUpperCase() on both sides
NormalizeCode(s) == ToUpperCase(Trim(s))

CodesMatch(input, expected) == NormalizeCode(input) = NormalizeCode(expected)

\* ------------------------------------------------------ code generator
Alphabet ==
  << "A","B","C","D","E","F","G","H","J","K","L","M","N","P","Q","R",
     "S","T","U","V","W","X","Y","Z","2","3","4","5","6","7","8","9" >>

\* the values crypto.randomBytes may return for one byte, sampled
RandomByteValues == {33}

generateVerificationCode(length, randomBytes) ==
  [i \in 1..length |-> Alphabet[(randomBytes[i] % Len(Alphabet)) + 1]]

DefaultMockCode == << "1","2","3","4","5","6" >>

\* ------------------------------------------------------------- config
\* TwoFactorConfig; optional fields are None or Some(v).
MockOff == [enabled |-> FALSE, code |-> None, authUrl |-> None]
MockOn(code) == [enabled |-> TRUE, code |-> code, authUrl |-> None]
MockWithUrl(code, authUrl) == [enabled |-> TRUE, code |-> code, authUrl |-> Some(authUrl)]

Configs ==
  { [enabled |-> TRUE, timeoutSeconds |-> Some(1), codeLength |-> Some(1),
     authBaseUrl |-> "", mock |-> MockOff],
    [enabled |-> TRUE, timeoutSeconds |-> Some(1), codeLength |-> None,
     authBaseUrl |-> "", mock |-> MockOn(Some(<< " ", "a", "b" >>))] }

Commands == {"2fa-test"}

ReqIdNames == << "r1", "r2", "r3", "r4" >>

\* codes a user may type
InputCodes == { << " ", "b", " " >>, << "A", "B" >> }

Statuses == {"pending", "verified", "expired", "cancelled"}
Terminal == {"verified", "expired", "cancelled"}

\* ------------------------------------------------- regular expressions
\* the characters of a string literal, as a sequence of one-character strings
Chars(str) == [i \in 1..Len(str) |-> SubSeq(str, i, i)]

CharSet(str) == { SubSeq(str, i, i) : i \in 1..Len(str) }

UpperLetters == "ABCDEFGHIJKLMNOPQRSTUVWXYZ"
LowerLetters == "abcdefghijklmnopqrstuvwxyz"

\* [a-zA-Z], [0-7] and the word characters of \b
Letters == CharSet(UpperLetters) \cup CharSet(LowerLetters)
OctalDigits == CharSet("01234567")
WordChars == Letters \cup CharSet("0123456789") \cup {"_"}

\* canonical form of a character under the i flag
ToLowerChar(c) ==
  IF c \in CharSet(UpperLetters)
    THEN LET i == CHOOSE i \in 1..Len(UpperLetters) : SubSeq(UpperLetters, i, i) = c
         IN SubSeq(LowerLetters, i, i)
    ELSE c

SameChar(a, b, ignoreCase) ==
  a = b \/ (ignoreCase /\ ToLowerChar(a) = ToLowerChar(b))

\* The source of a regular expression, as its syntax tree.
Node(t, s, chars, of) == [t |-> t, s |-> s, chars |-> chars, of |-> of]

Lit(str) == Node("lit", Chars(str), {}, << >>)
Class(chars) == Node("set", << >>, chars, << >>)
Cat(nodes) == Node("seq", << >>, {}, nodes)
Alt(nodes) == Node("alt", << >>, {}, nodes)
Star(node) == Node("star", << >>, {}, << node >>)
Plus(node) == Cat(<< node, Star(node) >>)
Bol == Node("bol", << >>, {}, << >>)
Eol == Node("eol", << >>, {}, << >>)
WordBoundary == Node("wb", << >>, {}, << >>)
Space == Class(WhiteSpace)

IsWordAt(s, p) == p \in 1..Len(s) /\ s[p] \in WordChars

\* Ends(node, s, p, ignoreCase): the positions at which a match of node that
\* starts at position p of s can end (a position is the index of the next
\* character to read, from 1 to Len(s) + 1)
RECURSIVE Ends(_, _, _, _)
RECURSIVE EndsOfSeq(_, _, _, _, _)
RECURSIVE StarClosure(_, _, _, _)

EndsOfSeq(nodes, m, s, from, ignoreCase) ==
  IF m > Len(nodes)
    THEN from
    ELSE EndsOfSeq(nodes, m + 1, s,
                   UNION { Ends(nodes[m], s, p, ignoreCase) : p \in from }, ignoreCase)

StarClosure(node, s, from, ignoreCase) ==
  LET more == from \cup UNION { Ends(node, s, p, ignoreCase) : p \in from }
  IN IF more = from THEN from ELSE StarClosure(node, s, more, ignoreCase)

Ends(node, s, p, ignoreCase) ==
  CASE node.t = "lit" ->
         IF /\ p + Len(node.s) - 1 <= Len(s)
            /\ \A m \in 1..Len(node.s) : SameChar(s[p + m - 1], node.s[m], ignoreCase)
           THEN {p + Len(node.s)}
           ELSE {}
    [] node.t = "set" ->
         IF p <= Len(s) /\ \E c \in node.chars : SameChar(s[p], c, ignoreCase)
           THEN {p + 1}
           ELSE {}
    [] node.t = "seq" -> EndsOfSeq(node.of, 1, s, {p}, ignoreCase)
    [] node.t = "alt" -> UNION { Ends(node.of[m], s, p, ignoreCase) : m \in 1..Len(node.of) }
    [] node.t = "star" -> StarClosure(node.of[1], s, {p}, ignoreCase)
    [] node.t = "bol" -> IF p = 1 THEN {p} ELSE {}
    [] node.t = "eol" -> IF p = Len(s) + 1 THEN {p} ELSE {}
    [] node.t = "wb" -> IF IsWordAt(s, p - 1) # IsWordAt(s, p) THEN {p} ELSE {}

\* A RegExp object: its source, its flags and its mutable lastIndex.
RegExp(source, flags) ==
  [ source |-> source,
    ignoreCase |-> "i" \in flags,
    global |-> "g" \in flags,
    sticky |-> "y" \in flags,
    lastIndex |-> 0 ]

SetMin(S) == CHOOSE x \in S : \A y \in S : x <= y
SetMax(S) == CHOOSE x \in S : \A y \in S : y <= x

\* RegExp.prototype.test(s): whether the expression matches and the lastIndex
\* it leaves.  Without the g and y flags the search starts at the beginning
\* and lastIndex is not written.  With g or y the search starts at lastIndex
\* (with y, the match must start there); a match sets lastIndex to its end, a
\* failure resets it to 0.  The end of a match matters only with g or y; the
\* expressions of the model that carry them are literals, whose match has
\* one possible end.
RegExpTest(re, s) ==
  LET stateful == re.global \/ re.sticky
      start == IF stateful THEN re.lastIndex + 1 ELSE 1
      candidates == IF re.sticky THEN {start} \cap (1..(Len(s) + 1))
                                 ELSE start..(Len(s) + 1)
      hits == { p \in candidates : Ends(re.source, s, p, re.ignoreCase) # {} }
  IN IF hits = {}
       THEN [matched |-> FALSE, lastIndex |-> IF stateful THEN 0 ELSE re.lastIndex]
       ELSE [matched |-> TRUE,
             lastIndex |-> IF stateful
                             THEN SetMax(Ends(re.source, s, SetMin(hits), re.ignoreCase)) - 1
                             ELSE re.lastIndex]

\* ------------------------------------------------- high-risk detector
HighRiskPattern(id, pattern, description, severity) ==
  [id |-> id, pattern |-> pattern, description |-> description, severity |-> severity]

\* -[a-zA-Z]*x[a-zA-Z]*
ShortFlag(x) == Cat(<< Lit("-"), Star(Class(Letters)), Lit(x), Star(Class(Letters)) >>)

DEFAULT_HIGH_RISK_PATTERNS ==
  << HighRiskPattern("rm-recursive",
       RegExp(Cat(<< Bol, Lit("rm"), Plus(Space),
                     Alt(<< ShortFlag("r"), ShortFlag("f"), Lit("--recursive"), Lit("--force") >>),
                     Plus(Space) >>), {"i"}),
       "Recursive or forced file deletion", "critical"),
     HighRiskPattern("sudo",
       RegExp(Cat(<< Bol, Alt(<< Lit("sudo"), Lit("doas") >>), Plus(Space) >>), {"i"}),
       "Elevated privilege command", "high"),
     HighRiskPattern("drop-database",
       RegExp(Cat(<< WordBoundary, Lit("drop"), Plus(Space),
                     Alt(<< Lit("database"), Lit("table"), Lit("schema") >>),
                     WordBoundary >>), {"i"}),
       "Database object deletion", "critical"),
     HighRiskPattern("git-force-push",
       RegExp(Cat(<< Bol, Lit("git"), Plus(Space), Lit("push"), Plus(Space),
                     Alt(<< ShortFlag("f"), Lit("--force") >>) >>), {"i"}),
       "Git force push", "high"),
     HighRiskPattern("kubectl-delete",
       RegExp(Cat(<< Bol, Lit("kubectl"), Plus(Space), Lit("delete"), Plus(Space) >>), {"i"}),
       "Kubernetes resource deletion", "high"),
     HighRiskPattern("docker-cleanup",
       RegExp(Cat(<< Bol, Lit("docker"), Plus(Space),
                     Alt(<< Lit("rm"), Lit("rmi"),
                            Cat(<< Lit("system"), Plus(Space), Lit("prune") >>),
                            Cat(<< Lit("container"), Plus(Space), Lit("prune") >>),
                            Cat(<< Lit("image"), Plus(Space), Lit("prune") >>) >>) >>), {"i"}),
       "Docker resource cleanup", "medium"),
     HighRiskPattern("chmod-dangerous",
       RegExp(Cat(<< Bol, Lit("chmod"), Plus(Space),
                     Alt(<< ShortFlag("R"), Lit("--recursive") >>), Plus(Space),
                     Star(Class(OctalDigits)), Class(OctalDigits), Class(OctalDigits),
                     Class(OctalDigits), Plus(Space), Lit("/") >>), {"i"}),
       "Recursive chmod on root paths", "critical"),
     HighRiskPattern("chown-dangerous",
       RegExp(Cat(<< Bol, Lit("chown"), Plus(Space),
                     Alt(<< ShortFlag("R"), Lit("--recursive") >>), Plus(Space) >>), {"i"}),
       "Recursive ownership change", "high"),
     HighRiskPattern("format-disk",
       RegExp(Cat(<< Bol, Alt(<< Lit("mkfs"), Lit("fdisk"), Lit("parted"),
                                 Cat(<< Lit("dd"), Plus(Space), Lit("if=") >>) >>) >>), {"i"}),
       "Disk formatting or low-level operations", "critical"),
     HighRiskPattern("truncate-table",
       RegExp(Cat(<< WordBoundary, Lit("truncate"), Plus(Space), Lit("table"),
                     WordBoundary >>), {"i"}),
       "Database table truncation", "critical"),
     HighRiskPattern("2fa-test",
       RegExp(Cat(<< Bol, Lit("2fa-test"), Eol >>), {"i"}),
       "Manual 2FA test command", "medium") >>

\* HighRiskDetectorConfig; optional fields are None or Some(v)
DetectorConfig(enabled, customPatterns, disabledPatternIds) ==
  [ enabled |-> enabled, customPatterns |-> customPatterns,
    disabledPatternIds |-> disabledPatternIds ]

\* custom patterns a caller may supply
CustomLaunch == HighRiskPattern("launch", RegExp(Lit("launch-nukes"), {}), "Launch", "critical")
CustomLaunchAny == HighRiskPattern("launch-any", RegExp(Lit("launch"), {"i"}), "Any launch", "medium")
CustomLaunchGlobal ==
  HighRiskPattern("launch-g", RegExp(Lit("launch-nukes"), {"g"}), "Launch, global flag", "critical")
CustomLaunchSticky ==
  HighRiskPattern("launch-y", RegExp(Lit("launch"), {"y"}), "Launch, sticky flag", "high")
CustomSudo ==
  HighRiskPattern("sudo", RegExp(Cat(<< Bol, Lit("sudo"), Plus(Space) >>), {}),
                  "Site rule for sudo", "medium")

DetectorConfigs ==
  { None,
    Some(DetectorConfig(FALSE, Some(<< CustomLaunch >>), Some(<< "sudo" >>))),
    Some(DetectorConfig(TRUE, None, None)),
    Some(DetectorConfig(TRUE, Some(<< >>), Some(<< "sudo", "rm-recursive" >>))),
    Some(DetectorConfig(TRUE, Some(<< CustomLaunchAny, CustomLaunch >>), Some(<< "drop-database" >>))),
    Some(DetectorConfig(TRUE, Some(<< CustomSudo, CustomLaunch >>), Some(<< "sudo", "launch" >>))),
    Some(DetectorConfig(TRUE, Some(<< CustomLaunchGlobal >>), None)),
    Some(DetectorConfig(TRUE, Some(<< CustomLaunchSticky, CustomLaunch >>), Some(<< >>))) }

\* commands a caller may classify
DetectorCommands ==
  { "rm -rf /tmp", "  sudo rm -rf /  ", "sudo drop table users", "DROP  DATABASE prod",
    "drop table a; truncate table b", "git push -f origin", "kubectl delete pod x",
    "docker system prune", "chmod -R 777 /", "chown -R root /srv", "mkfs.ext4 /dev/sda",
    "truncate table logs", "2fa-test", "2fa-test now", "ls -la", "rm file.txt",
    "launch-nukes", " sudo launch-nukes\t" }

\* the state of the pattern objects: the lastIndex of the RegExp of every
\* default pattern, and the caller's configuration object with its own patterns
Detector(config) ==
  [defaults |-> [i \in 1..Len(DEFAULT_HIGH_RISK_PATTERNS) |-> 0], config |-> config]

\* the i-th default pattern as it is now
DefaultPattern(d, i) ==
  [DEFAULT_HIGH_RISK_PATTERNS[i] EXCEPT !.pattern.lastIndex = d.defaults[i]]

\* config.disabledPatternIds ?? []  as a Set
DisabledIds(config) ==
  IF IsNone(config) \/ IsNone(Get(config).disabledPatternIds)
    THEN {}
    ELSE { Get(Get(config).disabledPatternIds)[i] :
             i \in 1..Len(Get(Get(config).disabledPatternIds)) }

\* config.customPatterns ?? []
CustomPatterns(config) ==
  IF IsNone(config) \/ IsNone(Get(config).customPatterns)
    THEN << >>
    ELSE Get(Get(config).customPatterns)

\* A pattern object is referred to by the array that holds it and its index.
DefaultRef(i) == [from |-> "default", i |-> i]
CustomRef(i) == [from |-> "custom", i |-> i]

Deref(d, ref) ==
  IF ref.from = "default" THEN DefaultPattern(d, ref.i) ELSE CustomPatterns(d.config)[ref.i]

\* defaults.filter(p => !disabledIds.has(p.id))
RECURSIVE FilterDefaults(_, _)
FilterDefaults(disabled, i) ==
  IF i > Len(DEFAULT_HIGH_RISK_PATTERNS) THEN << >>
  ELSE (IF DEFAULT_HIGH_RISK_PATTERNS[i].id \in disabled THEN << >> ELSE << DefaultRef(i) >>)
         \o FilterDefaults(disabled, i + 1)

CustomRefs(config) == [i \in 1..Len(CustomPatterns(config)) |-> CustomRef(i)]

DetectPatterns_CustomsFirst(d) ==
  CustomRefs(d.config) \o FilterDefaults(DisabledIds(d.config), 1)

DetectPatterns_FilterCustoms(d) ==
  FilterDefaults(DisabledIds(d.config), 1)
    \o SelectSeq(CustomRefs(d.config),
                 LAMBDA ref : Deref(d, ref).id \notin DisabledIds(d.config))

\* the list detectHighRiskCommand evaluates
DetectPatterns(d) ==
  FilterDefaults(DisabledIds(d.config), 1) \o CustomRefs(d.config)

\* getHighRiskPatterns(config)
getHighRiskPatterns(d) ==
  LET refs == FilterDefaults(DisabledIds(d.config), 1) \o CustomRefs(d.config)
  IN [i \in 1..Len(refs) |-> Deref(d, refs[i])]

\* isHighRiskDetectionEnabled(config): config?.enabled ?? false
isHighRiskDetectionEnabled(config) == ~IsNone(config) /\ Get(config).enabled

DetectDisabled_Never(config) == FALSE

\* !config?.enabled
DetectDisabled(config) == IsNone(config) \/ ~Get(config).enabled

\* pattern.pattern.test(...) writes the lastIndex of the object it is called on
SetLastIndex(d, ref, lastIndex) ==
  IF ref.from = "default"
    THEN [d EXCEPT !.defaults[ref.i] = lastIndex]
    ELSE [d EXCEPT !.config[1].customPatterns[1][ref.i].pattern.lastIndex = lastIndex]

\* the for loop: the patterns are tested in order until one accepts
RECURSIVE DetectLoop(_, _, _, _)
DetectLoop(d, refs, m, s) ==
  IF m > Len(refs)
    THEN [detector |-> d, matchedPattern |-> None]
    ELSE LET t == RegExpTest(Deref(d, refs[m]).pattern, s)
             after == SetLastIndex(d, refs[m], t.lastIndex)
         IN IF t.matched
              THEN [detector |-> after, matchedPattern |-> Some(Deref(after, refs[m]))]
              ELSE DetectLoop(after, refs, m + 1, s)

HighRiskDetectionResult(isHighRisk, matchedPattern, command) ==
  [isHighRisk |-> isHighRisk, matchedPattern |-> matchedPattern, command |-> command]

\* detectHighRiskCommand(command, config): the result, and the pattern objects
\* as the call leaves them
detectHighRiskCommand(command, d) ==
  LET trimmedCommand == Trim(Chars(command))
  IN IF DetectDisabled(d.config)
       THEN [detector |-> d, result |-> HighRiskDetectionResult(FALSE, None, trimmedCommand)]
       ELSE LET found == DetectLoop(d, DetectPatterns(d), 1, trimmedCommand)
            IN [detector |-> found.detector,
                result |-> HighRiskDetectionResult(~IsNone(found.matchedPattern),
                                                   found.matchedPattern, trimmedCommand)]

VARIABLES
  now,        \* Date.now()
  manager,    \* globalThis[GLOBAL_KEY]: None, or Some(config)
  requests,   \* the TwoFactorRequest objects created so far, in creation order
  pending,    \* TwoFactorAuthManager.pending: id -> PendingEntry
  calls,      \* the waitForVerification calls: promise, resolve, timer
  detector,   \* the detector's pattern objects: lastIndex of the defaults, the config
  last        \* the operation of the last step and what it returned

vars == << now, manager, requests, pending, calls, detector, last >>

\* ------------------------------------------------------------ helpers
EmptyMap == [x \in {} |-> None]

MapSet(m, key, val) == [x \in (DOMAIN m) \cup {key} |-> IF x = key THEN val ELSE m[x]]

MapDelete_Clear(m, key) == [x \in {} |-> None]

MapDelete(m, key) == [x \in (DOMAIN m) \ {key} |-> m[x]]

Config == Get(manager)

\* what a step reports: the operation, the arguments and the return value
\* (ret) of the manager method it called, the waitForVerification call it
\* concerns (k; for getPendingCount, the count returned) and, for a gateway
\* handler, the respond(...) calls it made
Report(op, id, code, k, ret, resp) ==
  [op |-> op, id |-> id, code |-> code, k |-> k, ret |-> ret, resp |-> resp]

\* resolve callback of call k invoked with v: a promise settles on the first
\* invocation only, later ones have no effect on its value
InvokeResolve(cs, k, v, by) ==
  [cs EXCEPT ![k].wakes = @ + 1,
             ![k].outcome = IF @ = "suspended" THEN v ELSE @,
             ![k].wokenBy = IF cs[k].outcome = "suspended" THEN by ELSE @]

ClearTimeout_Noop(cs, k) == cs

\* clearTimeout(timer): disarms an armed timer, no effect on any other
ClearTimeout(cs, k) ==
  [cs EXCEPT ![k].timer = IF @ = "armed" THEN "cleared" ELSE @]

\* ---------------------------------------------------------------- Init
Init ==
  /\ now = 0
  /\ manager = None
  /\ requests = << >>
  /\ pending = EmptyMap
  /\ calls = << >>
  /\ detector = Detector(None)
  /\ last = Report("load", "", << >>, 0, "", None)

\* initTwoFactorAuth(config): the singleton is created once
InitTwoFactorAuth(config) ==
  /\ IsNone(manager)
  /\ manager' = Some(config)
  /\ pending' = EmptyMap
  /\ last' = Report("init", "", << >>, 0, "", None)
  /\ UNCHANGED << now, requests, calls, detector >>

\* time passes
Tick ==
  /\ now + TickMs <= MaxTime
  /\ now' = now + TickMs
  /\ last' = Report("tick", "", << >>, 0, "", None)
  /\ UNCHANGED << manager, requests, pending, calls, detector >>

\* ----------------------------------------------------------- create
TimeoutMs(config) ==
  (IF IsNone(config.timeoutSeconds) THEN DEFAULT_TIMEOUT_SECONDS
                                    ELSE Get(config.timeoutSeconds)) * 1000

CodeLength_IgnoresConfig(config) == DEFAULT_CODE_LENGTH

CodeLength(config) ==
  IF IsNone(config.codeLength) THEN DEFAULT_CODE_LENGTH ELSE Get(config.codeLength)

\* this.config.mock?.enabled === true ? this.config.mock.code?.trim() || "123456" : null
MockCode(config) ==
  IF config.mock.enabled
    THEN Some(IF IsNone(config.mock.code) \/ Trim(Get(config.mock.code)) = << >>
                THEN DefaultMockCode
                ELSE Trim(Get(config.mock.code)))
    ELSE None

NewRequest(config, id, command, randomBytes, t) ==
  [ id |-> id,
    command |-> command,
    verificationCode |->
      IF IsNone(MockCode(config))
        THEN generateVerificationCode(CodeLength(config), randomBytes)
        ELSE Get(MockCode(config)),
    createdAtMs |-> t,
    expiresAtMs |-> t + TimeoutMs(config),
    status |-> "pending",
    resolvedAtMs |-> None ]

Create_StoresRequest(command, randomBytes) ==
  /\ ~IsNone(manager)
  /\ Len(requests) < MaxRequests
  /\ now + TimeoutMs(Config) <= MaxTime
  /\ requests' = Append(requests,
       NewRequest(Config, ReqIdNames[Len(requests) + 1], command, randomBytes, now))
  /\ pending' = MapSet(pending, ReqIdNames[Len(requests) + 1],
       [request |-> Len(requests) + 1, resolve |-> 0, timer |-> 0])
  /\ last' = Report("create", ReqIdNames[Len(requests) + 1], << >>, 0, "", None)
  /\ UNCHANGED << now, manager, calls, detector >>

Create(command, randomBytes) ==
  /\ ~IsNone(manager)
  /\ Len(requests) < MaxRequests
  /\ now + TimeoutMs(Config) <= MaxTime
  /\ requests' = Append(requests,
       NewRequest(Config, ReqIdNames[Len(requests) + 1], command, randomBytes, now))
  /\ last' = Report("create", ReqIdNames[Len(requests) + 1], << >>, 0, "", None)
  /\ UNCHANGED << now, manager, pending, calls, detector >>

\* create(payload), with the bytes crypto.randomBytes(length) returns
CreateRequest ==
  /\ ~IsNone(manager)
  /\ \E command \in Commands, randomBytes \in [1..CodeLength(Config) -> RandomByteValues] :
        Create(command, randomBytes)

\* ----------------------------------------------- waitForVerification
NewCall(n, outcome, wokenBy, timer, fireAt) ==
  [ request |-> n, outcome |-> outcome, wakes |-> 0, wokenBy |-> wokenBy,
    timer |-> timer, fireAt |-> fireAt ]

\* timeoutMs <= 0
WaitExpiredAtCall(request) == request.expiresAtMs - now <= 0

WaitForVerification(n) ==
  /\ ~IsNone(manager)
  /\ n \in 1..Len(requests)
  /\ Len(calls) < MaxWaits
  /\ LET k == Len(calls) + 1
         request == requests[n]
     IN IF WaitExpiredAtCall(request)
          THEN /\ requests' = [requests EXCEPT ![n].status = "expired"]
               /\ calls' = Append(calls, NewCall(n, "false", "immediate", "none", 0))
               /\ last' = Report("wait", request.id, << >>, k, "false", None)
               /\ UNCHANGED pending
          ELSE /\ calls' = Append(calls,
                    NewCall(n, "suspended", "", "armed", now + (request.expiresAtMs - now)))
               /\ pending' = MapSet(pending, request.id,
                    [request |-> n, resolve |-> k, timer |-> k])
               /\ last' = Report("wait", request.id, << >>, k, "suspended", None)
               /\ UNCHANGED requests
  /\ UNCHANGED << now, manager, detector >>

TimerCallbackCalls_NoResolve(k) == [calls EXCEPT ![k].timer = "fired"]

TimerCallbackCalls_ResolveTrue(k) == InvokeResolve([calls EXCEPT ![k].timer = "fired"], k, "true", "timer")

\* the setTimeout callback of call k: resolve(false)
TimerCallbackCalls(k) == InvokeResolve([calls EXCEPT ![k].timer = "fired"], k, "false", "timer")

\* the deadline timer of call k fires
TimerFire(k) ==
  /\ k \in 1..Len(calls)
  /\ calls[k].timer = "armed"
  /\ now >= calls[k].fireAt
  /\ LET n == calls[k].request
     IN /\ pending' = MapDelete(pending, requests[n].id)
        /\ requests' = [requests EXCEPT ![n].status = "expired"]
        /\ calls' = TimerCallbackCalls(k)
        /\ last' = Report("timer", requests[n].id, << >>, k, "", None)
  /\ UNCHANGED << now, manager, detector >>

\* ------------------------------------------------------------- verify
\* Date.now() > request.expiresAtMs
VerifyExpired(request) == now > request.expiresAtMs

ErrNotFound == "Request not found or expired"
ErrExpired == "Request expired"
ErrInvalid == "Invalid verification code"

\* what verify(requestId, code) returns: "success" or its error
\* (store: the request objects the table entries refer to)
VerifyReturnIn(store, id, code) ==
  IF id \notin DOMAIN pending THEN ErrNotFound
  ELSE IF VerifyExpired(store[pending[id].request]) THEN ErrExpired
  ELSE IF ~CodesMatch(code, store[pending[id].request].verificationCode) THEN ErrInvalid
  ELSE "success"

VerifyReturn(id, code) == VerifyReturnIn(requests, id, code)

VerifyExpire_NoResolve(id) ==
  LET e == pending[id]
  IN /\ calls' = ClearTimeout(calls, e.timer)
     /\ pending' = MapDelete(pending, id)
     /\ requests' = [requests EXCEPT ![e.request].status = "expired"]

\* verify's expire branch
VerifyExpire(id) ==
  LET e == pending[id]
  IN /\ calls' = InvokeResolve(ClearTimeout(calls, e.timer), e.resolve, "false", "verify-expired")
     /\ pending' = MapDelete(pending, id)
     /\ requests' = [requests EXCEPT ![e.request].status = "expired"]

VerifySuccess_NoTimestamp(id) ==
  LET e == pending[id]
  IN /\ calls' = InvokeResolve(ClearTimeout(calls, e.timer), e.resolve, "true", "verify")
     /\ pending' = MapDelete(pending, id)
     /\ requests' = [requests EXCEPT ![e.request].status = "verified"]

\* verify's success branch
VerifySuccess(id) ==
  LET e == pending[id]
  IN /\ calls' = InvokeResolve(ClearTimeout(calls, e.timer), e.resolve, "true", "verify")
     /\ pending' = MapDelete(pending, id)
     /\ requests' = [requests EXCEPT ![e.request].status = "verified",
                                     ![e.request].resolvedAtMs = Some(now)]

ManagerVerify_ConsumeOnMismatch(id, code) ==
  LET r == VerifyReturn(id, code)
  IN CASE r = "success" -> VerifySuccess(id)
       [] r \in {ErrExpired, ErrInvalid} -> VerifyExpire(id)
       [] OTHER -> UNCHANGED << requests, pending, calls >>

\* TwoFactorAuthManager.verify: its effect on the manager, the request and the waiter
ManagerVerify(id, code) ==
  LET r == VerifyReturn(id, code)
  IN CASE r = "success" -> VerifySuccess(id)
       [] r = ErrExpired -> VerifyExpire(id)
       [] OTHER -> UNCHANGED << requests, pending, calls >>

EntryCall(id) == IF id \in DOMAIN pending THEN pending[id].resolve ELSE 0

Verify(id, code) ==
  /\ ~IsNone(manager)
  /\ ManagerVerify(id, code)
  /\ last' = Report("verify", id, code, EntryCall(id), VerifyReturn(id, code), None)
  /\ UNCHANGED << now, manager, detector >>

\* ------------------------------------------------------------- cancel
CancelReturnIn(store, id) == id \in DOMAIN pending

CancelReturn(id) == CancelReturnIn(requests, id)

ManagerCancel_ChecksExpiry(id) ==
  IF id \notin DOMAIN pending
    THEN UNCHANGED << requests, pending, calls >>
    ELSE LET e == pending[id]
         IN /\ calls' = InvokeResolve(ClearTimeout(calls, e.timer), e.resolve, "false", "cancel")
            /\ pending' = MapDelete(pending, id)
            /\ requests' = [requests EXCEPT ![e.request].status =
                               IF VerifyExpired(requests[e.request]) THEN "expired" ELSE "cancelled"]

\* TwoFactorAuthManager.cancel: its effect on the manager, the request and the waiter
ManagerCancel(id) ==
  IF id \notin DOMAIN pending
    THEN UNCHANGED << requests, pending, calls >>
    ELSE LET e == pending[id]
         IN /\ calls' = InvokeResolve(ClearTimeout(calls, e.timer), e.resolve, "false", "cancel")
            /\ pending' = MapDelete(pending, id)
            /\ requests' = [requests EXCEPT ![e.request].status = "cancelled"]

Cancel(id) ==
  /\ ~IsNone(manager)
  /\ ManagerCancel(id)
  /\ last' = Report("cancel", id, << >>, EntryCall(id),
                    IF CancelReturn(id) THEN "true" ELSE "false", None)
  /\ UNCHANGED << now, manager, detector >>

\* --------------------------------------------------------- inspection
\* this.pending.get(requestId)?.request ?? null
getRequestIn(store, id) ==
  IF id \in DOMAIN pending THEN Some(store[pending[id].request]) ELSE None

getRequest(id) == getRequestIn(requests, id)

getPendingCount == Cardinality(DOMAIN pending)

GetRequest(id) ==
  /\ ~IsNone(manager)
  /\ last' = Report("getRequest", id, << >>, 0,
                    IF IsNone(getRequest(id)) THEN "null" ELSE Get(getRequest(id)).status, None)
  /\ UNCHANGED << now, manager, requests, pending, calls, detector >>

GetPendingCount ==
  /\ ~IsNone(manager)
  /\ last' = Report("getPendingCount", "", << >>, getPendingCount, "", None)
  /\ UNCHANGED << now, manager, requests, pending, calls, detector >>

\* ---------------------------------------------------- gateway handlers
\* A JavaScript parameter value: its typeof and, for a string, its text.
JsUndefined(empty) == [t |-> "undefined", v |-> empty]
JsString(v) == [t |-> "string", v |-> v]
JsNumber(v) == [t |-> "number", v |-> v]

\* !x || typeof x !== "string"
MissingOrNotString(x, empty) == x.t # "string" \/ x.v = empty

IdParams ==
  { JsUndefined(""), JsString(""), JsNumber("7"), JsString("r9") }
    \cup { JsString(ReqIdNames[i]) : i \in 1..MaxRequests }

CodeParams ==
  { JsUndefined(<< >>), JsString(<< >>), JsNumber(<< "7" >>) }
    \cup { JsString(c) : c \in InputCodes }

UNAVAILABLE_AsInvalidRequest == "INVALID_REQUEST"

UNAVAILABLE == "UNAVAILABLE"
INVALID_REQUEST == "INVALID_REQUEST"

\* respond(ok, payload, error)
Respond(ok, payload, error) == [ok |-> ok, payload |-> payload, error |-> error]

errorShape(code, message) == Some([code |-> code, message |-> message])

RespondError_Twice(code, message) ==
  << Respond(FALSE, None, errorShape(code, message)),
     Respond(FALSE, None, errorShape(code, message)) >>

RespondError(code, message) == << Respond(FALSE, None, errorShape(code, message)) >>

\* what the 2fa.verify handler passes to respond
VerifyResponseIn(store, p) ==
  IF IsNone(manager)
    THEN RespondError(UNAVAILABLE, "2FA not initialized")
  ELSE IF MissingOrNotString(p.requestId, "")
    THEN RespondError(INVALID_REQUEST, "requestId is required")
  ELSE IF MissingOrNotString(p.code, << >>)
    THEN RespondError(INVALID_REQUEST, "code is required")
  ELSE IF VerifyReturnIn(store, p.requestId.v, p.code.v) # "success"
    THEN RespondError(INVALID_REQUEST, VerifyReturnIn(store, p.requestId.v, p.code.v))
  ELSE << Respond(TRUE, Some([verified |-> TRUE, requestId |-> p.requestId.v]), None) >>

VerifyResponse(p) == VerifyResponseIn(requests, p)

Handle2faVerify(p) ==
  /\ IF \/ IsNone(manager)
        \/ MissingOrNotString(p.requestId, "")
        \/ MissingOrNotString(p.code, << >>)
       THEN /\ last' = Report("2fa.verify", "", << >>, 0, "", VerifyResponse(p))
            /\ UNCHANGED << requests, pending, calls >>
       ELSE /\ ManagerVerify(p.requestId.v, p.code.v)
            /\ last' = Report("2fa.verify", p.requestId.v, p.code.v, EntryCall(p.requestId.v),
                              VerifyReturn(p.requestId.v, p.code.v), VerifyResponse(p))
  /\ UNCHANGED << now, manager, detector >>

StatusPayload_WithCode(request) ==
  [ requestId |-> request.id, status |-> request.status,
    command |-> request.command, expiresAtMs |-> request.expiresAtMs,
    verificationCode |-> request.verificationCode ]

StatusPayload(request) ==
  [ requestId |-> request.id, status |-> request.status,
    command |-> request.command, expiresAtMs |-> request.expiresAtMs ]

\* what the 2fa.status handler passes to respond
StatusResponseIn(store, p) ==
  IF IsNone(manager)
    THEN RespondError(UNAVAILABLE, "2FA not initialized")
  ELSE IF MissingOrNotString(p.requestId, "")
    THEN RespondError(INVALID_REQUEST, "requestId is required")
  ELSE IF IsNone(getRequestIn(store, p.requestId.v))
    THEN RespondError(INVALID_REQUEST, "Request not found or expired")
  ELSE << Respond(TRUE, Some(StatusPayload(Get(getRequestIn(store, p.requestId.v)))), None) >>

StatusResponse(p) == StatusResponseIn(requests, p)

Handle2faStatus_ExpiresOverdue(p) ==
  /\ last' = Report("2fa.status", p.requestId.v, << >>, 0, "", StatusResponse(p))
  /\ IF /\ ~IsNone(manager)
        /\ ~MissingOrNotString(p.requestId, "")
        /\ p.requestId.v \in DOMAIN pending
        /\ VerifyExpired(requests[pending[p.requestId.v].request])
       THEN VerifyExpire(p.requestId.v)
       ELSE UNCHANGED << requests, pending, calls >>
  /\ UNCHANGED << now, manager, detector >>

Handle2faStatus(p) ==
  /\ last' = Report("2fa.status", p.requestId.v, << >>, 0, "", StatusResponse(p))
  /\ UNCHANGED << now, manager, requests, pending, calls, detector >>

\* what the 2fa.cancel handler passes to respond
CancelResponseIn(store, p) ==
  IF IsNone(manager)
    THEN RespondError(UNAVAILABLE, "2FA not initialized")
  ELSE IF MissingOrNotString(p.requestId, "")
    THEN RespondError(INVALID_REQUEST, "requestId is required")
  ELSE IF ~CancelReturnIn(store, p.requestId.v)
    THEN RespondError(INVALID_REQUEST, "Request not found or already resolved")
  ELSE << Respond(TRUE, Some([cancelled |-> TRUE, requestId |-> p.requestId.v]), None) >>

CancelResponse(p) == CancelResponseIn(requests, p)

Handle2faCancel(p) ==
  /\ IF IsNone(manager) \/ MissingOrNotString(p.requestId, "")
       THEN /\ last' = Report("2fa.cancel", "", << >>, 0, "", CancelResponse(p))
            /\ UNCHANGED << requests, pending, calls >>
       ELSE /\ ManagerCancel(p.requestId.v)
            /\ last' = Report("2fa.cancel", p.requestId.v, << >>, EntryCall(p.requestId.v),
                              IF CancelReturn(p.requestId.v) THEN "true" ELSE "false",
                              CancelResponse(p))
  /\ UNCHANGED << now, manager, detector >>

\* ---------------------------------------------------------------- Next
\* request ids a caller of the manager may pass: the created ones and an unknown one
CallerIds == { ReqIdNames[i] : i \in 1..MaxRequests } \cup { "r9" }

Next ==
  \/ \E config \in Configs : InitTwoFactorAuth(config)
  \/ Tick
  \/ CreateRequest
  \/ \E n \in 1..MaxRequests : WaitForVerification(n)
  \/ \E k \in 1..MaxWaits : TimerFire(k)
  \/ \E id \in CallerIds, code \in InputCodes : Verify(id, code)
  \/ \E id \in CallerIds : Cancel(id)
  \/ \E id \in CallerIds : GetRequest(id)
  \/ GetPendingCount
  \/ \E id \in IdParams, code \in CodeParams :
        Handle2faVerify([requestId |-> id, code |-> code])
  \/ \E id \in IdParams : Handle2faStatus([requestId |-> id])
  \/ \E id \in IdParams : Handle2faCancel([requestId |-> id])

Spec == Init /\ [][Next]_vars

\* The event loop runs the callback of every armed timer once it is due, and
\* the clock advances.
FairSpec ==
  /\ Spec
  /\ WF_vars(Tick)
  /\ \A k \in 1..MaxWaits : WF_vars(TimerFire(k))

\* ------------------------------------------------ classifying commands
LifecycleIdle ==
  /\ now = 0
  /\ manager = None
  /\ requests = << >>
  /\ pending = EmptyMap
  /\ calls = << >>

\* a caller classifies commands with one configuration object
DetectInit ==
  /\ LifecycleIdle
  /\ detector \in { Detector(config) : config \in DetectorConfigs }
  /\ last = [op |-> "load"]

DetectHighRiskCommand(command) ==
  /\ detector' = detectHighRiskCommand(command, detector).detector
  /\ last' = [op |-> "detectHighRiskCommand", command |-> Chars(command),
              ret |-> detectHighRiskCommand(command, detector).result]
  /\ UNCHANGED << now, manager, requests, pending, calls >>

GetHighRiskPatterns ==
  /\ last' = [op |-> "getHighRiskPatterns", ret |-> getHighRiskPatterns(detector)]
  /\ UNCHANGED << now, manager, requests, pending, calls, detector >>

IsHighRiskDetectionEnabled ==
  /\ last' = [op |-> "isHighRiskDetectionEnabled",
              ret |-> isHighRiskDetectionEnabled(detector.config)]
  /\ UNCHANGED << now, manager, requests, pending, calls, detector >>

DetectNext ==
  \/ \E command \in DetectorCommands : DetectHighRiskCommand(command)
  \/ GetHighRiskPatterns
  \/ IsHighRiskDetectionEnabled

DetectSpec == DetectInit /\ [][DetectNext]_vars

\* ------------------------------------------------ challenge URL, message
\* String.prototype.includes / indexOf
Includes(s, sub) ==
  \E i \in 1..(Len(s) - Len(sub) + 1) : SubSeq(s, i, i + Len(sub) - 1) = sub

IndexOf(s, sub) ==
  SetMin({ i \in 1..(Len(s) - Len(sub) + 1) : SubSeq(s, i, i + Len(sub) - 1) = sub })

\* s.replace(sub, by) with a string pattern: the first occurrence only (by
\* holds no "$", which replace would interpret)
ReplaceFirst(s, sub, by) ==
  IF Includes(s, sub)
    THEN SubSeq(s, 1, IndexOf(s, sub) - 1) \o by
           \o SubSeq(s, IndexOf(s, sub) + Len(sub), Len(s))
    ELSE s

\* the string made of a sequence of characters
RECURSIVE Str(_)
Str(chars) == IF chars = << >> THEN "" ELSE Head(chars) \o Str(Tail(chars))

\* s.trim()
TrimString(s) == Str(Trim(Chars(s)))

\* encodeURIComponent: letters, digits and - _ . ! ~ * ' ( ) stay, every other
\* character becomes its %XX escape
EncodeChar(c) ==
  CASE c = " " -> "%20"
    [] c = "/" -> "%2F"
    [] c = "?" -> "%3F"
    [] c = "&" -> "%26"
    [] c = "=" -> "%3D"
    [] c = ":" -> "%3A"
    [] c = "{" -> "%7B"
    [] c = "}" -> "%7D"
    [] OTHER -> c

RECURSIVE encodeURIComponent(_)
encodeURIComponent(s) ==
  IF Len(s) = 0 THEN ""
  ELSE EncodeChar(SubSeq(s, 1, 1)) \o encodeURIComponent(SubSeq(s, 2, Len(s)))

\* this.config.mock?.enabled ? this.config.mock.authUrl?.trim() : undefined
MockUrl(config) ==
  IF config.mock.enabled /\ ~IsNone(config.mock.authUrl)
    THEN Some(TrimString(Get(config.mock.authUrl)))
    ELSE None

\* this.config.authBaseUrl.replace(/\/$/, "")
BaseUrl(config) ==
  IF Len(config.authBaseUrl) > 0
       /\ SubSeq(config.authBaseUrl, Len(config.authBaseUrl), Len(config.authBaseUrl)) = "/"
    THEN SubSeq(config.authBaseUrl, 1, Len(config.authBaseUrl) - 1)
    ELSE config.authBaseUrl

\* TwoFactorAuthManager.getAuthUrl(requestId)
getAuthUrl(config, requestId) ==
  IF ~IsNone(MockUrl(config)) /\ Get(MockUrl(config)) # ""
    THEN LET mockUrl == Get(MockUrl(config))
         IN IF Includes(mockUrl, "{requestId}")
              THEN ReplaceFirst(mockUrl, "{requestId}", requestId)
              ELSE mockUrl \o (IF Includes(mockUrl, "?") THEN "&" ELSE "?")
                     \o "requestId=" \o encodeURIComponent(requestId)
    ELSE BaseUrl(config) \o "/2fa/verify/" \o requestId

\* Math.ceil(a / b) for b > 0
Ceil(a, b) == -((-a) \div b)

\* Math.ceil((request.expiresAtMs - Date.now()) / 1000 / 60)
ExpiresIn(request) == Ceil(request.expiresAtMs - now, 1000 * 60)

MockHint_Always(request, authUrl) ==
  "(mock authentication, test code: " \o Str(request.verificationCode) \o ")"

\* the hint appended to the third line of the message (its text, like the
\* other fixed parts of the message, is given in English)
MockHint(request, authUrl) ==
  IF Includes(authUrl, "mock-2fa")
    THEN "(mock authentication, test code: " \o Str(request.verificationCode) \o ")"
    ELSE ""

\* formatTwoFactorAuthMessage(request, authUrl); the back quotes around the
\* command are written as quotes
formatTwoFactorAuthMessage(request, authUrl) ==
  "High-risk operation detected: '" \o request.command \o "'" \o "\n"
    \o "Open the link to complete two-factor authentication: " \o authUrl \o "\n"
    \o "Then enter the verification code here to continue." \o MockHint(request, authUrl) \o "\n"
    \o "Valid for: " \o ToString(ExpiresIn(request)) \o " minutes (enter cancel to abort)"

\* configurations of the manager that differ in the base URL and the mock block
ChallengeConfigs ==
  { [enabled |-> TRUE, timeoutSeconds |-> None, codeLength |-> Some(2),
     authBaseUrl |-> base, mock |-> mock] :
      base \in { "https://auth.example.com", "https://auth.example.com/",
                 "https://mock-2fa.example.com" },
      mock \in { MockOff,
                 MockOn(None),
                 MockOn(Some(<< "a", "b" >>)),
                 MockWithUrl(None, "   "),
                 MockWithUrl(None, "https://mock-2fa.example/verify?from=openclaw"),
                 MockWithUrl(Some(<< "a", "b" >>), " http://test.local/verify "),
                 MockWithUrl(None, "http://test.local/{requestId}/status?id={requestId}"),
                 [enabled |-> FALSE, code |-> None,
                  authUrl |-> Some("https://mock-2fa.example/verify")] } }

\* request ids passed to getAuthUrl
ChallengeIds == { "r1", "9f-1c", "a b/c" }

\* Date.now() when the message is rendered
ChallengeTimes == { 0, 30000, 400000 }

\* the requests create may have returned at time 0
ChallengeRequests ==
  { NewRequest(Config, id, command, randomBytes, 0) :
      id \in ChallengeIds, command \in Commands,
      randomBytes \in [1..CodeLength(Config) -> {33, 34}] }

ChallengeInit ==
  /\ now \in ChallengeTimes
  /\ manager \in { Some(config) : config \in ChallengeConfigs }
  /\ requests = << >>
  /\ pending = EmptyMap
  /\ calls = << >>
  /\ detector = Detector(None)
  /\ last = [op |-> "load"]

GetAuthUrl(requestId) ==
  /\ last' = [op |-> "getAuthUrl", requestId |-> requestId,
              ret |-> getAuthUrl(Config, requestId)]
  /\ UNCHANGED << now, manager, requests, pending, calls, detector >>

\* the message sent for a request, with the URL getAuthUrl built for it
FormatTwoFactorAuthMessage(request) ==
  /\ last' = [op |-> "formatTwoFactorAuthMessage", request |-> request,
              authUrl |-> getAuthUrl(Config, request.id),
              ret |-> formatTwoFactorAuthMessage(request, getAuthUrl(Config, request.id))]
  /\ UNCHANGED << now, manager, requests, pending, calls, detector >>

ChallengeNext ==
  \/ \E requestId \in ChallengeIds : GetAuthUrl(requestId)
  \/ \E request \in ChallengeRequests : FormatTwoFactorAuthMessage(request)

ChallengeSpec == ChallengeInit /\ [][ChallengeNext]_vars

\* ------------------------------------------------ generating codes
\* values of one byte of crypto.randomBytes, sampled over the residues the
\* generator distinguishes (first, last, wrap-around)
ByteSamples == { 0, 31, 32, 200, 255 }

\* configurations that differ in codeLength and in the mock block
CodeConfigs ==
  { [enabled |-> TRUE, timeoutSeconds |-> Some(1), codeLength |-> codeLength,
     authBaseUrl |-> "", mock |-> mock] :
      codeLength \in { None } \cup { Some(n) : n \in 0..MaxCodeLength },
      mock \in { MockOff,
                 [enabled |-> FALSE, code |-> Some(<< "a", "b" >>), authUrl |-> None],
                 MockOn(Some(<< "a", "b" >>)) } }

CodeInit ==
  /\ now = 0
  /\ manager \in { Some(config) : config \in CodeConfigs }
  /\ requests = << >>
  /\ pending = EmptyMap
  /\ calls = << >>
  /\ detector = Detector(None)
  /\ last = Report("init", "", << >>, 0, "", None)

\* create(payload), for the bytes crypto.randomBytes(codeLength) may return
CreateWithBytes ==
  /\ requests = << >>
  /\ \E command \in Commands, randomBytes \in [1..CodeLength(Config) -> ByteSamples] :
        Create(command, randomBytes)

CodeSpec == CodeInit /\ [][CreateWithBytes]_vars

\* ======================================================================
\* Properties
\* ======================================================================
Calls == 1..Len(calls)
Requests == 1..Len(requests)

\* the step called TwoFactorAuthManager.verify / cancel (directly or through
\* the gateway handler, which calls it only when its parameters are valid)
VerifyCalled == last'.op = "verify" \/ (last'.op = "2fa.verify" /\ last'.ret # "")
CancelCalled == last'.op = "cancel" \/ (last'.op = "2fa.cancel" /\ last'.ret # "")

\* call k settles in this step (it was suspended, or it is a new call that
\* returns at once)
Settles(k) ==
  /\ k \in 1..Len(calls')
  /\ calls'[k].outcome # "suspended"
  /\ k \in Calls => calls[k].outcome = "suspended"

\* C1: a request's status starts at pending and changes at most once: once it
\* is verified, expired or cancelled, no operation or timer callback changes it.
C1_StatusChangesAtMostOnce ==
  [][ /\ \A n \in Requests :
           requests[n].status \in Terminal => requests'[n].status = requests[n].status
      /\ \A n \in 1..Len(requests') :
           n \notin Requests => requests'[n].status = "pending" ]_vars

C3_OneTerminalTransition ==
  [][ \A n \in Requests :
        requests[n].status \in Terminal /\ last'.id = requests[n].id =>
          /\ VerifyCalled =>
               last'.ret = ErrNotFound /\ UNCHANGED << requests, pending, calls >>
          /\ CancelCalled =>
               last'.ret = "false" /\ UNCHANGED << requests, pending, calls >>
          /\ last'.op # "timer" ]_vars

\* the only waitForVerification call made so far on its request
OnlyCallOnRequest(k) ==
  \A j \in Calls : j # k => calls[j].request # calls[k].request

\* C4: the waiter of a waitForVerification call is woken exactly once, by
\* exactly one of verify, cancel and the deadline timer: its resolve callback is
\* never invoked a second time, a settled call has no armed timer left to wake
\* it again, and a suspended call still has its timer armed.  For a request
\* waited on by that one call, the terminal state is the one of the path that
\* woke the waiter.
C4_WokenExactlyOnce ==
  \A k \in Calls :
    LET c == calls[k]
        request == requests[c.request]
    IN /\ c.wakes <= 1
       /\ c.outcome = "suspended" <=> c.timer = "armed"
       /\ c.outcome = "suspended" => c.wakes = 0
       /\ c.outcome # "suspended" /\ c.wokenBy # "immediate" => c.wakes = 1
       /\ OnlyCallOnRequest(k) =>
            /\ c.outcome = "suspended" =>
                 /\ request.status = "pending"
                 /\ request.id \in DOMAIN pending
                 /\ pending[request.id].resolve = k
            /\ c.outcome # "suspended" => request.id \notin DOMAIN pending
            /\ c.wokenBy = "verify" => request.status = "verified" /\ c.outcome = "true"
            /\ c.wokenBy = "cancel" => request.status = "cancelled" /\ c.outcome = "false"
            /\ c.wokenBy \in {"timer", "verify-expired", "immediate"} =>
                 request.status = "expired" /\ c.outcome = "false"

\* a correct verify won the race against a deadline timer that was already due
C4_Witness ==
  \E k \in Calls :
    /\ OnlyCallOnRequest(k)
    /\ calls[k].wokenBy = "verify"
    /\ calls[k].wakes = 1
    /\ calls[k].timer = "cleared"
    /\ now >= calls[k].fireAt

\* C5: every entry of the pending table holds a request whose status is
\* pending, so getRequest and the 2fa.status handler never expose a verified,
\* expired or cancelled request, and a resolved request is not found by id.
C5_TableHoldsOnlyPending ==
  /\ \A id \in DOMAIN pending : requests[pending[id].request].status = "pending"
  /\ \A n \in Requests :
       requests[n].status \in Terminal =>
         /\ IsNone(getRequest(requests[n].id))
         /\ StatusResponse([requestId |-> JsString(requests[n].id)])[1].ok = FALSE
  /\ getPendingCount = Cardinality({n \in Requests : requests[n].id \in DOMAIN pending
                                                      /\ requests[n].status = "pending"})

\* C6: an armed deadline timer exists only for a request id that is in the
\* pending table, and it is that entry's timer: every resolution path releases
\* the timer.
C6_NoLeakedTimer ==
  \A k \in Calls :
    calls[k].timer = "armed" =>
      /\ requests[calls[k].request].id \in DOMAIN pending
      /\ pending[requests[calls[k].request].id].timer = k

\* C7: no stuck waiter.  Every suspended waitForVerification call eventually
\* returns; a call that is settled by neither a successful verify nor a cancel
\* returns false with the request's status set to expired, and a call the
\* deadline timer settles is settled by that timer firing.
C7_NoStuckWaiter ==
  /\ \A k \in 1..MaxWaits :
       (k \in Calls /\ calls[k].outcome = "suspended")
         ~> (k \in Calls /\ calls[k].outcome # "suspended")
  /\ [][ \A k \in 1..Len(calls') :
           Settles(k) /\ calls'[k].wokenBy \notin {"verify", "cancel"} =>
             /\ calls'[k].outcome = "false"
             /\ requests'[calls'[k].request].status = "expired"
             /\ calls'[k].wokenBy = "timer" =>
                  calls[k].timer = "armed" /\ calls'[k].timer = "fired" ]_vars

\* a waiter nobody verified or cancelled was released by its deadline timer
C7_Witness ==
  \E k \in Calls :
    /\ calls[k].wokenBy = "timer"
    /\ calls[k].outcome = "false"
    /\ requests[calls[k].request].status = "expired"
    /\ last.op = "timer"
    /\ last.k = k

\* the codes are equal once trimmed and uppercased
SameCode(input, expected) == ToUpperCase(Trim(input)) = ToUpperCase(Trim(expected))

\* the handler of this step responded once, with this error
RespondedError(code, message) ==
  last'.resp = << [ok |-> FALSE, payload |-> None,
                   error |-> Some([code |-> code, message |-> message])] >>

\* C8: verify with a non-matching code on a pending, unexpired request returns
\* "Invalid verification code" and changes neither the request, nor the table,
\* nor a timer, nor a waiter; and after a wrong attempt a verify with the
\* matching code, before expiry, still succeeds.
C8_WrongCodeLeavesPending ==
  /\ [][ VerifyCalled /\ last'.id \in DOMAIN pending =>
           LET request == requests[pending[last'.id].request]
           IN request.status = "pending" /\ now <= request.expiresAtMs =>
                IF SameCode(last'.code, request.verificationCode)
                  THEN last'.ret = "success"
                  ELSE /\ last'.ret = ErrInvalid
                       /\ UNCHANGED << requests, pending, calls >>
                       /\ last'.op = "2fa.verify" =>
                            RespondedError(INVALID_REQUEST, ErrInvalid) ]_vars
  /\ [](last.op \in {"verify", "2fa.verify"} /\ last.ret = ErrInvalid =>
          /\ last.id \in DOMAIN pending
          /\ LET request == requests[pending[last.id].request]
             IN \A code \in InputCodes :
                  SameCode(code, request.verificationCode) =>
                    VerifyReturn(last.id, code) = "success")

\* a wrong code was submitted for a request that is still pending and waited on
C8_Witness ==
  /\ last.op = "2fa.verify"
  /\ last.ret = ErrInvalid
  /\ last.id \in DOMAIN pending
  /\ requests[pending[last.id].request].status = "pending"
  /\ calls[pending[last.id].resolve].outcome = "suspended"
  /\ calls[pending[last.id].timer].timer = "armed"

\* C9: verify with a matching code on an unexpired request that is waited on
\* performs the verified transition in one step: it clears the entry's timer,
\* removes the entry, sets status verified and resolvedAtMs to the current time,
\* wakes the waiter with true and returns success.
C9_VerifiedTransition ==
  [][ VerifyCalled /\ last'.id \in DOMAIN pending =>
        LET e == pending[last'.id]
            request == requests[e.request]
        IN now <= request.expiresAtMs /\ SameCode(last'.code, request.verificationCode) =>
             /\ last'.ret = "success"
             /\ calls[e.timer].timer = "armed"
             /\ calls'[e.timer].timer = "cleared"
             /\ DOMAIN pending' = (DOMAIN pending) \ {last'.id}
             /\ requests'[e.request].status = "verified"
             /\ requests'[e.request].resolvedAtMs = Some(now)
             /\ calls[e.resolve].outcome = "suspended"
             /\ calls'[e.resolve].outcome = "true"
             /\ calls'[e.resolve].wakes = 1
             /\ last'.op = "2fa.verify" =>
                  last'.resp = << [ok |-> TRUE,
                                   payload |-> Some([verified |-> TRUE, requestId |-> last'.id]),
                                   error |-> None] >> ]_vars

\* a pending request has just been verified with the matching code
C9_Witness ==
  /\ last.op = "verify"
  /\ last.ret = "success"
  /\ last.k \in Calls
  /\ calls[last.k].outcome = "true"
  /\ requests[calls[last.k].request].status = "verified"
  /\ requests[calls[last.k].request].resolvedAtMs = Some(now)
  /\ last.id \notin DOMAIN pending

C11_ExpiredOnArrival ==
  /\ [][ last'.op = "wait" =>
           LET k == last'.k
               request == requests[calls'[k].request]
           IN now >= request.expiresAtMs =>
                /\ last'.ret = "false"
                /\ calls'[k].outcome = "false"
                /\ calls'[k].timer = "none"
                /\ requests'[calls'[k].request].status = "expired"
                /\ pending' = pending ]_vars
  /\ [](\A k \in Calls :
          calls[k].wokenBy = "immediate" =>
            \A code \in InputCodes :
              VerifyReturn(requests[calls[k].request].id, code) # "success")

\* C12: a request that was created and that nobody has called
\* waitForVerification on yet can be inspected: getRequest(id) returns it, and
\* the 2fa.status handler responds with it, with status pending.
C12_InspectBeforeWait ==
  \A n \in Requests :
    (\A k \in Calls : calls[k].request # n) =>
      /\ getRequest(requests[n].id) = Some(requests[n])
      /\ requests[n].status = "pending"
      /\ StatusResponse([requestId |-> JsString(requests[n].id)]) =
           << [ok |-> TRUE,
                payload |-> Some([requestId |-> requests[n].id, status |-> "pending",
                                  command |-> requests[n].command,
                                  expiresAtMs |-> requests[n].expiresAtMs]),
                error |-> None] >>

\* the two cases of a letter
CasePairs == { {"a", "A"}, {"b", "B"}, {"c", "C"} }

SameLetter(x, y) == x = y \/ {x, y} \in CasePairs

\* t is s without its leading and trailing white space
IsTrimOf(t, s) ==
  \E i \in 1..(Len(s) + 1), j \in 0..Len(s) :
    /\ t = SubSeq(s, i, j)
    /\ \A m \in 1..Len(s) : (m < i \/ m > j) => s[m] \in WhiteSpace
    /\ t # << >> => t[1] \notin WhiteSpace /\ t[Len(t)] \notin WhiteSpace

\* a and b are the same text up to surrounding white space and letter case
EqualIgnoringCaseAndSpace(a, b) ==
  \E i \in 1..(Len(a) + 1), j \in 0..Len(a), m \in 1..(Len(b) + 1), n \in 0..Len(b) :
    LET ta == SubSeq(a, i, j)
        tb == SubSeq(b, m, n)
    IN /\ IsTrimOf(ta, a)
       /\ IsTrimOf(tb, b)
       /\ Len(ta) = Len(tb)
       /\ \A x \in 1..Len(ta) : SameLetter(ta[x], tb[x])

\* C13: verify on a live, unexpired entry succeeds exactly when the submitted
\* code and the stored code are equal up to surrounding white space and letter
\* case; and no step changes the verificationCode of an existing request.
C13_CodeComparison ==
  [][ /\ VerifyCalled /\ last'.id \in DOMAIN pending =>
           LET request == requests[pending[last'.id].request]
           IN now <= request.expiresAtMs =>
                (last'.ret = "success"
                   <=> EqualIgnoringCaseAndSpace(last'.code, request.verificationCode))
      /\ \A n \in Requests :
           requests'[n].verificationCode = requests[n].verificationCode ]_vars

\* a code typed in lower case with surrounding blanks was accepted
C13_Witness ==
  /\ last.op = "verify"
  /\ last.ret = "success"
  /\ last.code = << " ", "b", " " >>
  /\ \E n \in Requests :
       /\ requests[n].id = last.id
       /\ requests[n].verificationCode = << "B" >>
       /\ requests[n].status = "verified"

\* the default patterns as they are now
DefaultPatterns(d) == [i \in 1..Len(DEFAULT_HIGH_RISK_PATTERNS) |-> DefaultPattern(d, i)]

\* the step classified a command
Detected == last'.op = "detectHighRiskCommand"

DetectionEnabled == ~IsNone(detector.config) /\ Get(detector.config).enabled

\* the ids of the default patterns, in the order of their declaration
DefaultIds ==
  << "rm-recursive", "sudo", "drop-database", "git-force-push", "kubectl-delete",
     "docker-cleanup", "chmod-dangerous", "chown-dangerous", "format-disk",
     "truncate-table", "2fa-test" >>

\* the effective pattern list: the defaults that are not disabled, in declared
\* order, then the custom patterns in their order
EffectiveList(d) ==
  SelectSeq(DefaultPatterns(d), LAMBDA q : q.id \notin DisabledIds(d.config))
    \o CustomPatterns(d.config)

\* the pattern's matcher accepts the string
Accepts(q, s) == RegExpTest(q.pattern, s).matched

\* a and b are the same pattern, up to the matcher's lastIndex
SamePattern(a, b) ==
  /\ a.id = b.id
  /\ a.severity = b.severity
  /\ a.description = b.description
  /\ a.pattern.source = b.pattern.source

\* C14: with detection enabled, detectHighRiskCommand evaluates the effective
\* list (defaults in declared order minus the disabled ids, then the customs)
\* and returns the first pattern of it that accepts the trimmed command,
\* whatever the severity of later ones; isHighRisk is false exactly when none
\* accepts; and that list is the one getHighRiskPatterns returns.
C14_FirstMatchWins ==
  [][ Detected /\ DetectionEnabled =>
        \A list \in { getHighRiskPatterns(detector) } :
          \A accepting \in { { m \in 1..Len(list) : Accepts(list[m], last'.ret.command) } } :
            /\ [i \in 1..Len(DEFAULT_HIGH_RISK_PATTERNS) |->
                  DefaultPattern(detector, i).id] = DefaultIds
            /\ list = EffectiveList(detector)
            /\ IsTrimOf(last'.ret.command, last'.command)
            /\ last'.ret.isHighRisk <=> accepting # {}
            /\ accepting = {} => IsNone(last'.ret.matchedPattern)
            /\ accepting # {} =>
                 /\ ~IsNone(last'.ret.matchedPattern)
                 /\ SamePattern(Get(last'.ret.matchedPattern), list[SetMin(accepting)]) ]_vars

\* the high-severity sudo pattern was returned for a command that a later,
\* critical pattern accepts as well
C14_Witness ==
  /\ last.op = "detectHighRiskCommand"
  /\ last.ret.isHighRisk
  /\ Get(last.ret.matchedPattern).id = "sudo"
  /\ Get(last.ret.matchedPattern).severity = "high"
  /\ \E m \in 1..Len(getHighRiskPatterns(detector)) :
       /\ getHighRiskPatterns(detector)[m].severity = "critical"
       /\ Accepts(getHighRiskPatterns(detector)[m], last.ret.command)

\* C15: with detection disabled, or without a configuration, detectHighRiskCommand
\* returns isHighRisk = false and no matchedPattern for every command, and
\* still returns the trimmed command.
C15_DisabledNeverFlags ==
  [][ Detected /\ ~DetectionEnabled =>
        /\ last'.ret.isHighRisk = FALSE
        /\ IsNone(last'.ret.matchedPattern)
        /\ IsTrimOf(last'.ret.command, last'.command)
        /\ detector' = detector ]_vars

\* a disabled detector passed a sudo command, returning it trimmed
C15_Witness ==
  /\ last.op = "detectHighRiskCommand"
  /\ ~IsNone(detector.config)
  /\ ~Get(detector.config).enabled
  /\ last.command = Chars("  sudo rm -rf /  ")
  /\ last.ret.command = Chars("sudo rm -rf /")
  /\ ~last.ret.isHighRisk
  /\ Accepts(DefaultPatterns(detector)[2], last.ret.command)

\* C16: disabledPatternIds removes default patterns only.  Every custom pattern
\* stays in the list, after the defaults, also when its id is disabled or is
\* the id of a default; when no enabled default accepts the command, the first
\* accepting custom pattern is returned.
C16_DisablingSparesCustoms ==
  [][ LET customs == CustomPatterns(detector.config)
          disabled == DisabledIds(detector.config)
      IN /\ last'.op = "getHighRiskPatterns" =>
              LET ret == last'.ret
                  kept == Len(ret) - Len(customs)
              IN /\ kept >= 0
                 /\ SubSeq(ret, kept + 1, Len(ret)) = customs
                 /\ SubSeq(ret, 1, kept) =
                      SelectSeq(DefaultPatterns(detector), LAMBDA q : q.id \notin disabled)
         /\ Detected /\ DetectionEnabled =>
              LET s == last'.ret.command
                  defaultHit == \E i \in 1..Len(DefaultPatterns(detector)) :
                                  /\ DefaultPatterns(detector)[i].id \notin disabled
                                  /\ Accepts(DefaultPatterns(detector)[i], s)
                  customHits == { i \in 1..Len(customs) : Accepts(customs[i], s) }
              IN ~defaultHit /\ customHits # {} =>
                   /\ last'.ret.isHighRisk
                   /\ SamePattern(Get(last'.ret.matchedPattern),
                                  customs[SetMin(customHits)]) ]_vars

\* a custom pattern whose id is disabled, and is the id of a default, matched
C16_Witness ==
  /\ last.op = "detectHighRiskCommand"
  /\ last.ret.isHighRisk
  /\ Get(last.ret.matchedPattern).id \in DisabledIds(detector.config)
  /\ Get(last.ret.matchedPattern).id = "sudo"
  /\ Get(last.ret.matchedPattern).severity = "medium"

\* C17: detectHighRiskCommand is pure and repeatable: a call leaves the
\* configuration and the default set as they were, and a call with the same
\* command as the call before it returns the same result.
C17_DetectionRepeatable ==
  [][ Detected =>
        /\ detector' = detector
        /\ last.op = "detectHighRiskCommand" /\ last.command = last'.command =>
             last'.ret = last.ret ]_vars

\* C18: with mock.enabled true, getAuthUrl never uses the base-URL logic,
\* whatever the mock configuration: the result is the mock URL with the
\* {requestId} placeholder replaced by the id, or the mock URL with the id
\* appended as a query parameter.
C18_MockUrlNeverReal ==
  last.op = "getAuthUrl" /\ Config.mock.enabled =>
    LET mockUrl == IF IsNone(Config.mock.authUrl)
                     THEN ""
                     ELSE TrimString(Get(Config.mock.authUrl))
        id == last.requestId
    IN /\ last.ret # Config.authBaseUrl \o "/2fa/verify/" \o id
       /\ \/ /\ Includes(mockUrl, "{requestId}")
             /\ last.ret = ReplaceFirst(mockUrl, "{requestId}", id)
          \/ last.ret = mockUrl \o "?requestId=" \o encodeURIComponent(id)
          \/ last.ret = mockUrl \o "&requestId=" \o encodeURIComponent(id)

\* resp is what the 2fa.verify handler is to respond to these parameters
ExpectedVerifyResponse(resp, id, code) ==
  IF manager = None
    THEN /\ Len(resp) = 1
         /\ resp[1].ok = FALSE
         /\ resp[1].payload = None
         /\ Get(resp[1].error).code = "UNAVAILABLE"
  ELSE IF /\ id.t = "string" /\ id.v # ""
          /\ code.t = "string" /\ code.v # << >>
          /\ id.v \in DOMAIN pending
          /\ now <= requests[pending[id.v].request].expiresAtMs
          /\ EqualIgnoringCaseAndSpace(code.v, requests[pending[id.v].request].verificationCode)
    THEN resp = << [ok |-> TRUE,
                    payload |-> Some([verified |-> TRUE, requestId |-> id.v]),
                    error |-> None] >>
    ELSE /\ Len(resp) = 1
         /\ resp[1].ok = FALSE
         /\ resp[1].payload = None
         /\ Get(resp[1].error).code = "INVALID_REQUEST"

\* C19: the 2fa.verify handler responds exactly once: with success
\* {verified: true, requestId} exactly when the manager is initialised,
\* requestId and code are non-empty strings and the manager's verify succeeds;
\* with an UNAVAILABLE error when there is no manager, whatever the
\* parameters; and with an INVALID_REQUEST error for a missing or malformed id
\* or code, a code mismatch and a request that is not found or expired.
C19_VerifyHandlerResponses ==
  \A id \in IdParams, code \in CodeParams :
    ExpectedVerifyResponse(VerifyResponse([requestId |-> id, code |-> code]), id, code)

\* the handler has answered a valid submission with success
C19_Witness ==
  /\ last.op = "2fa.verify"
  /\ last.resp = << [ok |-> TRUE,
                     payload |-> Some([verified |-> TRUE, requestId |-> last.id]),
                     error |-> None] >>
  /\ \E n \in Requests : requests[n].id = last.id /\ requests[n].status = "verified"

\* codes a request may carry
AlternativeCodes == { << "B", "C" >>, << "a", "b" >>, << "1", "2", "3", "4", "5", "6" >> }

\* the message without a hint
MessageWithoutCode(request, authUrl) ==
  LET minutes == CHOOSE n \in -10..10 :
                   (n - 1) * 60000 < request.expiresAtMs - now
                     /\ request.expiresAtMs - now <= n * 60000
  IN "High-risk operation detected: '" \o request.command \o "'\n"
       \o "Open the link to complete two-factor authentication: " \o authUrl \o "\n"
       \o "Then enter the verification code here to continue.\n"
       \o "Valid for: " \o ToString(minutes) \o " minutes (enter cancel to abort)"

\* C20: formatTwoFactorAuthMessage puts the expected code into the message only
\* when the auth URL indicates a mock challenge (it contains "mock-2fa"); for
\* any other URL the message holds the command, the URL and the minutes left
\* only, so two requests that differ only in verificationCode render the same
\* message.
C20_CodeOnlyInMockMessage ==
  last.op = "formatTwoFactorAuthMessage" /\ ~Includes(last.authUrl, "mock-2fa") =>
    /\ last.ret = MessageWithoutCode(last.request, last.authUrl)
    /\ \A code \in AlternativeCodes :
         formatTwoFactorAuthMessage([last.request EXCEPT !.verificationCode = code],
                                    last.authUrl) = last.ret

\* a message was rendered, in mock mode, for a URL that is not a mock-2fa one
C20_Witness ==
  /\ last.op = "formatTwoFactorAuthMessage"
  /\ Config.mock.enabled
  /\ last.request.verificationCode = << "a", "b" >>
  /\ last.authUrl = "http://test.local/verify?requestId=r1"
  /\ ~Includes(last.ret, "code: ab")

\* the unambiguous alphabet
UnambiguousChars == CharSet("ABCDEFGHJKLMNPQRSTUVWXYZ23456789")

\* C21: with a non-mock configuration and a configured code length n, the code
\* of a created request has exactly n characters (6 when none is configured),
\* each of them in the 32-character alphabet, never 0, O, 1 or I; and every
\* value of a random byte selects a character of that alphabet.
C21_GeneratedCodeShape ==
  /\ \A n \in Requests :
       ~Config.mock.enabled =>
         /\ Len(requests[n].verificationCode) =
              (IF Config.codeLength = None THEN 6 ELSE Config.codeLength[1])
         /\ \A i \in 1..Len(requests[n].verificationCode) :
              /\ requests[n].verificationCode[i] \in UnambiguousChars
              /\ requests[n].verificationCode[i] \notin { "0", "O", "1", "I" }
  /\ Cardinality(UnambiguousChars) = 32
  /\ \A byte \in 0..255 :
       generateVerificationCode(1, << byte >>)[1] \in UnambiguousChars

\* a three-character code was generated from the bytes 0, 255 and 200
C21_Witness ==
  /\ last.op = "create"
  /\ ~Config.mock.enabled
  /\ Config.codeLength = Some(3)
  /\ requests[1].verificationCode = << "A", "9", "J" >>

\* C22: a verify (direct or through 2fa.verify) on an entry that is present
\* and past expiresAt performs the expire transition whatever the code: the
\* entry's timer is cleared, the entry removed, the status expired, the
\* entry's waiter woken with false and "Request expired" returned; the table,
\* the requests and every waiter are then as after the entry's deadline
\* timer firing in the same state.
C22_VerifyExpiresLikeTimer ==
  [][ ( /\ last'.op \in { "verify", "2fa.verify" }
        /\ last'.id \in DOMAIN pending
        /\ now > requests[pending[last'.id].request].expiresAtMs )
      => \A e \in { pending[last'.id] } :
           /\ last'.ret = "Request expired"
           /\ last'.op = "2fa.verify" =>
                last'.resp = RespondError("INVALID_REQUEST", "Request expired")
           /\ calls[e.timer].timer = "armed"
           /\ calls'[e.timer].timer = "cleared"
           /\ last'.id \notin DOMAIN pending'
           /\ requests'[e.request].status = "expired"
           /\ calls[e.resolve].outcome = "suspended"
           /\ calls'[e.resolve].outcome = "false"
           /\ calls'[e.resolve].wakes = 1
           \* the same state as after the timer callback of that entry
           /\ pending' = MapDelete(pending, requests[calls[e.timer].request].id)
           /\ requests' = [requests EXCEPT ![calls[e.timer].request].status = "expired"]
           /\ \A k \in DOMAIN calls :
                /\ calls'[k].outcome = TimerCallbackCalls(e.timer)[k].outcome
                /\ calls'[k].wakes = TimerCallbackCalls(e.timer)[k].wakes
                /\ (calls'[k].timer = "armed") = (TimerCallbackCalls(e.timer)[k].timer = "armed")
    ]_vars

\* a verify with the correct code found the entry past its deadline
C22_Witness ==
  /\ last.op \in { "verify", "2fa.verify" }
  /\ last.ret = "Request expired"
  /\ last.k \in DOMAIN calls
  /\ calls[last.k].wokenBy = "verify-expired"
  /\ calls[last.k].outcome = "false"
  /\ \E n \in Requests :
       /\ requests[n].id = last.id
       /\ requests[n].status = "expired"
       /\ now > requests[n].expiresAtMs
       /\ CodesMatch(last.code, requests[n].verificationCode)

\* C23: create returns a request with status pending, no resolvedAt and
\* expiresAt = createdAt + timeoutSeconds * 1000; it registers no timer and
\* adds no entry: the pending table, getPendingCount() and every other
\* request are unchanged.
C23_CreateFrame ==
  [][ last'.op = "create"
      => /\ Len(requests') = Len(requests) + 1
         /\ \A r \in { requests'[Len(requests')] } :
              /\ r.id = last'.id
              /\ r.status = "pending"
              /\ r.resolvedAtMs = None
              /\ r.createdAtMs = now
              /\ r.expiresAtMs = r.createdAtMs + Config.timeoutSeconds[1] * 1000
         /\ pending' = pending
         /\ last'.id \notin DOMAIN pending'
         /\ Cardinality(DOMAIN pending') = Cardinality(DOMAIN pending)
         /\ calls' = calls
         /\ \A n \in Requests : requests'[n] = requests[n]
    ]_vars

\* a request was created while another one was registered and waited on
C23_Witness ==
  /\ last.op = "create"
  /\ Len(requests) = 2
  /\ requests[2].createdAtMs = 1000
  /\ requests[2].expiresAtMs = 2000
  /\ DOMAIN pending = { requests[1].id }
  /\ calls[pending[requests[1].id].timer].timer = "armed"

\* the steps that operate on one request: the manager methods, the handlers
\* that call them, and the deadline timer
OperationsOnRequest == { "wait", "verify", "cancel", "timer", "2fa.verify", "2fa.cancel" }

\* C24: requests are independent: a waitForVerification, verify, cancel or
\* timer firing on one request leaves the entry, status, code and deadline of
\* every request with another id unchanged, and the timer and the waiter of
\* every call on such a request unchanged (neither woken nor settled).
C24_RequestsIndependent ==
  [][ last'.op \in OperationsOnRequest
      => \A n \in Requests :
           requests[n].id # last'.id
           => /\ requests'[n] = requests[n]
              /\ (requests[n].id \in DOMAIN pending') = (requests[n].id \in DOMAIN pending)
              /\ requests[n].id \in DOMAIN pending =>
                   pending'[requests[n].id] = pending[requests[n].id]
              /\ \A k \in DOMAIN calls :
                   calls[k].request = n => calls'[k] = calls[k]
    ]_vars

\* the first request was verified while the second one was registered, its
\* timer armed and its waiter suspended
C24_Witness ==
  /\ last.op \in { "verify", "2fa.verify" }
  /\ last.ret = "success"
  /\ Len(requests) = 2
  /\ last.id = requests[1].id
  /\ requests[1].status = "verified"
  /\ requests[2].id \in DOMAIN pending
  /\ requests[2].status = "pending"
  /\ calls[pending[requests[2].id].resolve].outcome = "suspended"
  /\ calls[pending[requests[2].id].timer].timer = "armed"

\* C25: getRequest(id), getPendingCount() and the 2fa.status handler are
\* read-only: they change no request, remove no table entry and arm, clear or
\* fire no timer (and wake no waiter), also when the inspected request is
\* past its expiresAt.
C25_InspectionReadOnly ==
  [][ last'.op \in { "getRequest", "getPendingCount", "2fa.status" }
      => /\ requests' = requests
         /\ pending' = pending
         /\ calls' = calls
         /\ manager' = manager
         /\ now' = now
    ]_vars

\* 2fa.status answered for a registered request past its expiresAt: it is
\* still pending, in the table, its timer armed and its waiter suspended
C25_Witness ==
  /\ last.op = "2fa.status"
  /\ last.id \in DOMAIN pending
  /\ now > requests[pending[last.id].request].expiresAtMs
  /\ requests[pending[last.id].request].status = "pending"
  /\ calls[pending[last.id].timer].timer = "armed"
  /\ calls[pending[last.id].resolve].outcome = "suspended"
  /\ last.resp[1].ok
  /\ last.resp[1].payload[1].status = "pending"

\* C26: verify and waitForVerification agree on expiry: at a time at which
\* waitForVerification settles the request as expired without waiting
\* (Date.now() >= expiresAtMs), a verify does not succeed and the request is
\* not marked verified.
C26_VerifyAgreesWithWaitOnExpiry ==
  [][ last'.op \in { "verify", "2fa.verify" }
      => \A n \in Requests :
           (requests[n].id = last'.id /\ WaitExpiredAtCall(requests[n]))
           => /\ last'.ret # "success"
              /\ requests[n].status # "verified" => requests'[n].status # "verified"
    ]_vars

\* C27: all waiters of one request observe the same outcome: any two
\* waitForVerification calls on the same request that have returned returned
\* the same boolean, and a call returned true exactly when a verify
\* succeeded for the request.
C27_WaitersAgree ==
  /\ \A k1 \in DOMAIN calls, k2 \in DOMAIN calls :
       ( /\ calls[k1].request = calls[k2].request
         /\ calls[k1].outcome # "suspended"
         /\ calls[k2].outcome # "suspended" )
       => calls[k1].outcome = calls[k2].outcome
  /\ \A k \in DOMAIN calls :
       calls[k].outcome # "suspended"
       => (calls[k].outcome = "true") = (requests[calls[k].request].resolvedAtMs # None)

\* the responses of the paths that return before any manager method is called
EarlyResponses ==
  { RespondError("UNAVAILABLE", "2FA not initialized"),
    RespondError("INVALID_REQUEST", "requestId is required"),
    RespondError("INVALID_REQUEST", "code is required") }

\* C28: each of the handlers 2fa.verify, 2fa.status and 2fa.cancel invokes
\* respond exactly once on every path; on the manager-missing and the
\* invalid-parameter paths no manager method is called and the requests, the
\* table, the waiters and their timers are unchanged.
C28_RespondOnce ==
  [][ last'.op \in { "2fa.verify", "2fa.status", "2fa.cancel" }
      => /\ Len(last'.resp) = 1
         /\ IsNone(manager) => last'.resp \in EarlyResponses
         /\ last'.resp \in EarlyResponses
            => /\ last'.ret = ""
               /\ last'.k = 0
               /\ requests' = requests
               /\ pending' = pending
               /\ calls' = calls
               /\ manager' = manager
    ]_vars

\* a 2fa.cancel without a usable requestId answered while a request was
\* registered
C28_Witness ==
  /\ last.op = "2fa.cancel"
  /\ last.resp = RespondError("INVALID_REQUEST", "requestId is required")
  /\ pending # EmptyMap
  /\ \E k \in DOMAIN calls : calls[k].timer = "armed" /\ calls[k].outcome = "suspended"

\* codes a pending request could hold instead of its own
StoredCodeVariants == AlternativeCodes \cup { << "B" >>, << "A", "B" >> }

\* the request objects, with the verificationCode of request n replaced
WithCode(n, code) == [requests EXCEPT ![n].verificationCode = code]

\* C29: the gateway never discloses the expected code: in two manager states
\* that differ only in the verificationCode of a pending request, 2fa.status
\* and 2fa.cancel give the same response for every request id, and 2fa.verify
\* gives the same response whenever the submitted code matches both stored
\* codes or neither.
C29_ResponsesHideCode ==
  \A n \in Requests :
    requests[n].id \in DOMAIN pending
    => \A stored \in StoredCodeVariants :
         \A store \in { WithCode(n, stored) } :
           \A id \in IdParams :
             /\ StatusResponseIn(store, [requestId |-> id]) =
                  StatusResponse([requestId |-> id])
             /\ CancelResponseIn(store, [requestId |-> id]) =
                  CancelResponse([requestId |-> id])
             /\ \A code \in CodeParams :
                  ( code.t = "string" =>
                      CodesMatch(code.v, stored) =
                        CodesMatch(code.v, requests[n].verificationCode) )
                  => VerifyResponseIn(store, [requestId |-> id, code |-> code]) =
                       VerifyResponse([requestId |-> id, code |-> code])

\* a pending request is in the table, 2fa.status answers for it, and another
\* stored code would change the answer of 2fa.verify to a submitted code
C29_Witness ==
  \E n \in Requests :
    /\ requests[n].id \in DOMAIN pending
    /\ requests[n].status = "pending"
    /\ StatusResponse([requestId |-> JsString(requests[n].id)])[1].ok
    /\ \E stored \in StoredCodeVariants, code \in InputCodes :
         /\ VerifyResponse([requestId |-> JsString(requests[n].id),
                            code |-> JsString(code)])[1].ok
         /\ ~VerifyResponseIn(WithCode(n, stored),
               [requestId |-> JsString(requests[n].id), code |-> JsString(code)])[1].ok

====
